---------------------------- MODULE Spec2Model ----------------------------
(***************************************************************************)
(* Model of the Misunderstanding Engine backend: the translator client,    *)
(* the language detector, the translation pipeline, the Gemini client and  *)
(* the /analyze handler, the cultural-context client, the translator       *)
(* routes and the model inference adapter.  Every public function is one   *)
(* action; the replies of the external services (HTTP providers,           *)
(* langdetect, fastText, Gemini, the transformer model) are inputs of the  *)
(* action.  A second specification, Concurrent, runs several requests of   *)
(* analyze_text step by step against the shared _MODEL_INSTANCE.           *)
(*                                                                         *)
(* Python values are records [t, s, n, items]:                             *)
(*   t      the Python type ("str", "None", "num", "list", "dict"), or     *)
(*          "nonjson" for an HTTP body that json() cannot decode;          *)
(*   s      a str's characters, a sequence of one-character strings;       *)
(*   n      a float's value in thousandths (exact decimal arithmetic);     *)
(*   items  a dict's entries [k, v] in insertion order (k the key), or a   *)
(*          list's elements as entries [k |-> "", v].                      *)
(***************************************************************************)
EXTENDS Integers, Sequences, FiniteSets

VARIABLES
    LINGO_CONFIGURED,  \* LINGO_API_URL and LINGO_API_KEY are both set
    HAS_FASTTEXT,      \* _HAS_FASTTEXT: the fasttext import succeeded
    gemini_client,     \* app.gemini_client is not None
    lingodev,          \* app.lingodev is not None
    pc,                \* "idle": waiting for a call; "done": a call ended
    op,                \* the function or route that was called
    args,              \* its arguments
    calls,             \* the providers it entered and the external calls made, in order
    env,               \* the replies those external calls received
    result,            \* how it ended: a return, a raise, or an HTTP response
    _TF_AVAILABLE,     \* model_inference._TF_AVAILABLE: the tensorflow imports succeeded
    _MODEL_INSTANCE,   \* model_inference._MODEL_INSTANCE: 0 for None, else the object's identity
    constructions,     \* how many ModelInference objects have been constructed
    rpc,               \* Concurrent: where each request stands in analyze_text
    observed           \* Concurrent: the model _get_model_instance returned to each request

vars == <<LINGO_CONFIGURED, HAS_FASTTEXT, gemini_client, lingodev,
          pc, op, args, calls, env, result,
          _TF_AVAILABLE, _MODEL_INSTANCE, constructions, rpc, observed>>

---------------------------------------------------------------------------
(* Python values *)

Val(t, s, n, items) == [t |-> t, s |-> s, n |-> n, items |-> items]
PyStr(s) == Val("str", s, 0, <<>>)
PyNone == Val("None", <<>>, 0, <<>>)
PyNum(n) == Val("num", <<>>, n, <<>>)
PyBool(b) == Val("bool", <<>>, IF b THEN 1 ELSE 0, <<>>)
\* a (lang_code, confidence) tuple
PyPair(code, confidence) == Val("tuple", code, confidence, <<>>)
PyList(elems) == Val("list", <<>>, 0, [i \in DOMAIN elems |-> [k |-> "", v |-> elems[i]]])
PyDict(items) == Val("dict", <<>>, 0, items)
NonJson == Val("nonjson", <<>>, 0, <<>>)
Entry(k, v) == [k |-> k, v |-> v]
\* the text of an exception or of a fixed message, kept as one piece
PyMsg(m) == PyStr(<<m>>)

\* bool(v)
Truthy(v) ==
    CASE v.t = "str" -> v.s # <<>>
      [] v.t \in {"num", "bool"} -> v.n # 0
      [] v.t \in {"list", "dict"} -> v.items # <<>>
      [] OTHER -> FALSE

\* key in d, for a dict d
Has(d, key) == \E i \in DOMAIN d.items : d.items[i].k = key

\* d[key], for a dict d that has the key
Get(d, key) == d.items[CHOOSE i \in DOMAIN d.items : d.items[i].k = key].v

\* d.get(key, default), for a dict d
GetOr(d, key, default) == IF Has(d, key) THEN Get(d, key) ELSE default

---------------------------------------------------------------------------
(* str methods *)

UpperCase == <<"A","B","C","D","E","F","G","H","I","J","K","L","M",
               "N","O","P","Q","R","S","T","U","V","W","X","Y","Z">>
LowerCase == <<"a","b","c","d","e","f","g","h","i","j","k","l","m",
               "n","o","p","q","r","s","t","u","v","w","x","y","z">>

LowerChar(c) ==
    IF \E i \in DOMAIN UpperCase : UpperCase[i] = c
    THEN LowerCase[CHOOSE i \in DOMAIN UpperCase : UpperCase[i] = c]
    ELSE c

\* s.lower()
Lower(s) == [i \in DOMAIN s |-> LowerChar(s[i])]

IsSpace(c) == c \in {" ", "\t", "\n", "\r"}

RECURSIVE LStrip(_)
LStrip(s) == IF s # <<>> /\ IsSpace(Head(s)) THEN LStrip(Tail(s)) ELSE s

RECURSIVE RStrip(_)
RStrip(s) ==
    IF s # <<>> /\ IsSpace(s[Len(s)]) THEN RStrip(SubSeq(s, 1, Len(s) - 1)) ELSE s

\* s.strip()
Strip(s) == RStrip(LStrip(s))

\* sub in s, for two strs
IsSubstring(sub, s) ==
    \E i \in 0..(Len(s) - Len(sub)) : SubSeq(s, i + 1, i + Len(sub)) = sub

\* the characters of the keys the translator client probes a reply with
KeyChars(key) ==
    CASE key = "translation" -> <<"t","r","a","n","s","l","a","t","i","o","n">>
      [] key = "translated_text" ->
           <<"t","r","a","n","s","l","a","t","e","d","_","t","e","x","t">>
      [] key = "result" -> <<"r","e","s","u","l","t">>
      [] key = "data" -> <<"d","a","t","a">>
      [] key = "responseData" -> <<"r","e","s","p","o","n","s","e","D","a","t","a">>

\* key in j, for j a str, a list or a dict (any other j raises TypeError)
Contains(j, key) ==
    CASE j.t = "str" -> IsSubstring(KeyChars(key), j.s)
      [] j.t = "list" ->
           \E i \in DOMAIN j.items :
              j.items[i].v.t = "str" /\ j.items[i].v.s = KeyChars(key)
      [] j.t = "dict" -> Has(j, key)
      [] OTHER -> FALSE

---------------------------------------------------------------------------
(* How a call ends *)

Return(v) == [kind |-> "return", exc |-> "", val |-> v, status |-> 0]
Raise(e, m) == [kind |-> "raise", exc |-> e, val |-> PyMsg(m), status |-> 0]
\* jsonify(body), status
Response(body, status) == [kind |-> "response", exc |-> "", val |-> body, status |-> status]

\* an HTTP exchange: the transport's outcome, the status code, the decoded body
Reply(transport, status, body) == [transport |-> transport, status |-> status, body |-> body]
NoReply == Reply("unused", 0, PyNone)

---------------------------------------------------------------------------
(* ai_integrations/translator_client.py *)

LingoKeys == <<"translation", "translated_text", "result", "data">>

\* the "fallback: first string value" loop
RECURSIVE FirstString(_, _)
FirstString(j, i) ==
    IF i > Len(j.items) THEN Raise("TranslatorError", "Unexpected Lingo response structure")
    ELSE IF j.items[i].v.t = "str" THEN Return(j.items[i].v)
    ELSE FirstString(j, i + 1)

\* the "Common response keys" loop, from its i-th key on
RECURSIVE LingoProbe(_, _)
LingoProbe(j, i) ==
    IF i > Len(LingoKeys)
    THEN IF j.t = "dict" THEN FirstString(j, 1)
         ELSE Raise("TranslatorError", "Unexpected Lingo response structure")
    ELSE IF j.t \notin {"str", "list", "dict"}
    THEN Raise("TypeError", "argument is not iterable")
    ELSE IF ~Contains(j, LingoKeys[i]) THEN LingoProbe(j, i + 1)
    ELSE IF j.t # "dict" THEN Raise("TypeError", "indices must be integers")
    ELSE LET v == Get(j, LingoKeys[i]) IN
         IF v.t = "str" THEN Return(v)
         ELSE IF v.t = "dict" /\ Has(v, "translation") THEN Return(Get(v, "translation"))
         ELSE LingoProbe(j, i + 1)

\* _call_lingo_rest; reply is what requests.post meets
_call_lingo_rest(configured, text, target_lang, source_lang, reply) ==
    IF ~configured
    THEN [out |-> Raise("TranslatorError", "Lingo.dev credentials not configured"),
          calls |-> <<>>]
    ELSE [calls |-> <<"lingo.post">>,
          out |->
            IF reply.transport # "ok" THEN Raise(reply.transport, "transport")
            ELSE IF reply.status >= 400 THEN Raise("TranslatorError", "Lingo REST error")
            ELSE IF reply.body.t = "nonjson"
            THEN Raise("TranslatorError", "Lingo returned non-JSON response")
            ELSE LingoProbe(reply.body, 1)]

s_en == <<"e", "n">>
s_auto == <<"a", "u", "t", "o">>
s_neutral == <<"n", "e", "u", "t", "r", "a", "l">>

\* a mutant of SameLanguage: the codes are compared as given
SameLanguageExact(src, target_lang) == src = target_lang

\* src.strip().lower() == target_lang.strip().lower()
SameLanguage(src, target_lang) == Lower(Strip(src)) = Lower(Strip(target_lang))

\* the tail of _call_mymemory, after the response was decoded into j
MyMemoryExtract(j) ==
    IF j.t \notin {"str", "list", "dict"}
    THEN Raise("TypeError", "argument is not iterable")
    ELSE IF ~Contains(j, "responseData")
    THEN Raise("TranslatorError", "MyMemory response missing translated text")
    ELSE IF j.t # "dict" THEN Raise("TypeError", "indices must be integers")
    ELSE LET rd == Get(j, "responseData")
             tx == GetOr(rd, "translatedText", PyNone) IN
         IF rd.t = "dict" /\ Truthy(tx) THEN Return(tx)
         ELSE Raise("TranslatorError", "MyMemory response missing translated text")

\* _call_mymemory; reply is what requests.get meets
_call_mymemory(text, target_lang, source_lang, reply) ==
    IF ~Truthy(text)
    THEN [out |-> Raise("TranslatorError", "No text to translate"), calls |-> <<>>]
    ELSE LET src == IF Truthy(source_lang) /\ source_lang # PyStr(s_auto)
                    THEN source_lang ELSE PyStr(s_en) IN
         IF src.t # "str" \/ target_lang.t # "str"
         THEN [out |-> Raise("AttributeError", "object has no attribute 'strip'"),
               calls |-> <<>>]
         ELSE IF SameLanguage(src.s, target_lang.s)
         THEN [out |-> Return(text), calls |-> <<>>]
         ELSE [calls |-> <<"mymemory.get">>,
               out |->
                 IF reply.transport # "ok" THEN Raise(reply.transport, "transport")
                 ELSE IF reply.status >= 400 THEN Raise("TranslatorError", "MyMemory error")
                 ELSE IF reply.body.t = "nonjson"
                 THEN Raise("TranslatorError", "MyMemory returned non-JSON")
                 ELSE MyMemoryExtract(reply.body)]

\* a mutant of TranslateFallback: a primary call that raised
\* TranslatorError is made once more before the fallback is entered
TranslateFallback_retry(configured, text, target_lang, source_lang, first, mymemory) ==
    IF configured /\ ~(first.out.kind = "raise" /\ first.out.exc = "TranslatorError")
    THEN [out |-> first.out, calls |-> <<"_call_lingo_rest">> \o first.calls]
    ELSE [out |-> _call_mymemory(text, target_lang, source_lang, mymemory).out,
          calls |-> (IF configured
                     THEN <<"_call_lingo_rest">> \o first.calls
                          \o <<"_call_lingo_rest">> \o first.calls
                     ELSE <<>>)
                    \o <<"_call_mymemory">>
                    \o _call_mymemory(text, target_lang, source_lang, mymemory).calls]

\* translate_text, once text and target_lang were found non-empty and the
\* primary provider, if configured, has ended as first
TranslateFallback(configured, text, target_lang, source_lang, first, mymemory) ==
    IF configured /\ ~(first.out.kind = "raise" /\ first.out.exc = "TranslatorError")
    THEN [out |-> first.out, calls |-> <<"_call_lingo_rest">> \o first.calls]
    ELSE [out |-> _call_mymemory(text, target_lang, source_lang, mymemory).out,
          calls |-> (IF configured THEN <<"_call_lingo_rest">> \o first.calls ELSE <<>>)
                    \o <<"_call_mymemory">>
                    \o _call_mymemory(text, target_lang, source_lang, mymemory).calls]

\* translate_text
translate_text(configured, text, target_lang, source_lang, lingo, mymemory) ==
    IF ~Truthy(text)
    THEN [out |-> Raise("TranslatorError", "Empty text"), calls |-> <<>>]
    ELSE IF ~Truthy(target_lang)
    THEN [out |-> Raise("TranslatorError", "No target language provided"), calls |-> <<>>]
    ELSE TranslateFallback(configured, text, target_lang, source_lang,
                           _call_lingo_rest(configured, text, target_lang, source_lang, lingo),
                           mymemory)

---------------------------------------------------------------------------
(* ai_integrations/language_detector.py *)

\* what a detector call meets: outcome "ok" with a code and a confidence
\* (thousandths), or the name of the exception it raises
Det(outcome, code, conf) == [outcome |-> outcome, code |-> code, conf |-> conf]
NoDet == Det("unused", <<>>, 0)

Min(a, b) == IF a <= b THEN a ELSE b

\* min(0.95, 0.3 + min(1.0, len(text) / 200.0)), in thousandths
HeuristicConfidence(text) == Min(950, 300 + Min(1000, Len(text) * 5))

\* a mutant of detect_language: a text of white space alone goes on to
\* the detectors
detect_language_unstripped(has_fasttext, text, fasttext, langdetect) ==
    IF ~Truthy(text)
    THEN [out |-> Return(PyPair(s_auto, 0)), calls |-> <<>>]
    ELSE IF text.t # "str"
    THEN [out |-> Raise("AttributeError", "object has no attribute 'strip'"), calls |-> <<>>]
    ELSE IF has_fasttext /\ fasttext.outcome = "ok"
    THEN [out |-> Return(PyPair(fasttext.code, fasttext.conf)), calls |-> <<"fasttext">>]
    ELSE [calls |-> (IF has_fasttext THEN <<"fasttext">> ELSE <<>>) \o <<"langdetect">>,
          out |->
            IF langdetect.outcome = "ok"
            THEN Return(PyPair(langdetect.code, HeuristicConfidence(Strip(text.s))))
            ELSE IF langdetect.outcome = "LangDetectException"
            THEN Return(PyPair(s_auto, 0))
            ELSE Raise(langdetect.outcome, "langdetect")]

\* detect_language; fasttext is what load_model/predict meet, langdetect
\* what detect() meets
detect_language(has_fasttext, text, fasttext, langdetect) ==
    IF ~Truthy(text)
    THEN [out |-> Return(PyPair(s_auto, 0)), calls |-> <<>>]
    ELSE IF text.t # "str"
    THEN [out |-> Raise("AttributeError", "object has no attribute 'strip'"), calls |-> <<>>]
    ELSE IF Strip(text.s) = <<>>
    THEN [out |-> Return(PyPair(s_auto, 0)), calls |-> <<>>]
    ELSE LET stripped == Strip(text.s)
             ft == IF has_fasttext THEN <<"fasttext">> ELSE <<>> IN
         IF has_fasttext /\ fasttext.outcome = "ok"
         THEN [out |-> Return(PyPair(fasttext.code, fasttext.conf)), calls |-> ft]
         ELSE [calls |-> ft \o <<"langdetect">>,
               out |->
                 IF langdetect.outcome = "ok"
                 THEN Return(PyPair(langdetect.code, HeuristicConfidence(stripped)))
                 ELSE IF langdetect.outcome = "LangDetectException"
                 THEN Return(PyPair(s_auto, 0))
                 ELSE Raise(langdetect.outcome, "langdetect")]

---------------------------------------------------------------------------
(* src/translation_pipeline.py *)

\* the result dict
TranslationResult(source_lang, confidence, target_lang, translated, error) ==
    PyDict(<<Entry("detected_lang",
                   IF Truthy(source_lang) THEN source_lang ELSE PyStr(s_auto)),
             Entry("detection_confidence", PyNum(confidence)),
             Entry("target_lang", target_lang),
             Entry("translated_text", translated),
             Entry("error", error)>>)

\* translate_and_package
translate_and_package(configured, has_fasttext, text, target_lang, force_source, fasttext, langdetect, lingo, mymemory) ==
    LET det == IF Truthy(force_source)
               THEN [out |-> Return(PyPair(force_source.s, 1000)), calls |-> <<>>]
               ELSE detect_language(has_fasttext, text, fasttext, langdetect) IN
    IF det.out.kind = "raise" THEN det
    ELSE LET source_lang == IF Truthy(force_source) THEN force_source
                            ELSE PyStr(det.out.val.s)
             confidence == det.out.val.n
             tr == translate_text(configured, text, target_lang, source_lang,
                                  lingo, mymemory) IN
         [calls |-> det.calls \o tr.calls,
          out |->
            IF tr.out.kind = "return"
            THEN Return(TranslationResult(source_lang, confidence, target_lang,
                                          tr.out.val, PyNone))
            ELSE IF tr.out.exc = "TranslatorError"
            THEN Return(TranslationResult(source_lang, confidence, target_lang,
                                          PyNone, tr.out.val))
            ELSE Return(TranslationResult(source_lang, confidence, target_lang,
                                          PyNone, PyMsg("Unexpected translation error")))]

---------------------------------------------------------------------------
(* src/model_inference.py *)

\* what the transformer model meets: from_pretrained (load), the forward
\* pass (predict) and the label the model gives the highest probability
Model(load, predict, primary) == [load |-> load, predict |-> predict, primary |-> primary]
NoModel == Model("unused", "unused", "")

\* self.labels
Labels == <<"anger", "joy", "optimism", "sadness">>

\* ModelInference.predict_emotion, for a text that is not blank: the
\* probabilities of the labels, or 0.0 for each when the prediction raised
predict_emotion(text, model) ==
    PyDict([i \in DOMAIN Labels |->
              Entry(Labels[i],
                    PyNum(IF model.predict # "ok" THEN 0
                          ELSE IF Labels[i] = model.primary THEN 700 ELSE 100))])

\* max(probs.items(), key=lambda kv: kv[1])[0]: the first label of the
\* highest probability
PrimaryEmotion(probs) ==
    probs.items[CHOOSE i \in DOMAIN probs.items :
                  /\ \A j \in DOMAIN probs.items : probs.items[j].v.n <= probs.items[i].v.n
                  /\ \A j \in 1..(i - 1) : probs.items[j].v.n < probs.items[i].v.n].k

\* len(text.split())
RECURSIVE WordCount(_)
WordCount(s) ==
    IF s = <<>> THEN 0
    ELSE IF IsSpace(Head(s)) THEN WordCount(Tail(s))
    ELSE IF Len(s) = 1 \/ IsSpace(s[2]) THEN 1 + WordCount(Tail(s))
    ELSE WordCount(Tail(s))

\* sum(1 for ch in text if ch.isupper()) / max(1, len(text)) > 0.3
UppercaseRatioHigh(s) ==
    10 * Cardinality({i \in DOMAIN s : \E j \in DOMAIN UpperCase : UpperCase[j] = s[i]})
        > 3 * Len(s)

NegativeWords == {<<"s","o","r","r","y">>, <<"a","p","o","l","o","g">>,
                  <<"r","e","g","r","e","t">>, <<"s","a","d">>}
PositiveWords == {<<"g","r","e","a","t">>, <<"h","a","p","p","y">>,
                  <<"g","o","o","d">>, <<"t","h","a","n","k","s">>}
AmbiguousWords == {<<"i","d","i","o","m">>, <<"s","a","r","c","a","s","m">>,
                   <<"l","o","l">>, <<"j","k">>}

\* any(w in lowered for w in words)
AnyIn(words, lowered) == \E w \in words : IsSubstring(w, lowered)

\* the notes a list of (condition, note) pairs gives
RECURSIVE Notes(_)
Notes(pairs) ==
    IF pairs = <<>> THEN <<>>
    ELSE (IF pairs[1][1] THEN <<PyMsg(pairs[1][2])>> ELSE <<>>) \o Notes(Tail(pairs))

\* the result of analyze_text for an empty text
EmptyInput ==
    PyDict(<<Entry("emotion_probs", PyDict(<<>>)),
             Entry("primary_emotion", PyStr(s_neutral)),
             Entry("misunderstanding_risk", PyNum(0)),
             Entry("notes", PyList(<<PyMsg("empty input")>>)),
             Entry("raw_text", PyStr(<<>>))>>)

\* the result of analyze_text built from the model's probabilities
ModelAnalysis(text, probs) ==
    LET primary == PrimaryEmotion(probs)
        word_count == WordCount(text) IN
    PyDict(<<Entry("emotion_probs", probs),
             Entry("primary_emotion", PyMsg(primary)),
             Entry("misunderstanding_risk",
                   PyNum(Min(1000, 100 + (IF primary \in {"anger", "sadness"} THEN 300 ELSE 0)
                                       + (IF word_count < 5 THEN 200 ELSE 0)))),
             Entry("notes",
                   PyList(Notes(<<
                     <<word_count < 5, "Very short message: may be ambiguous.">>,
                     <<primary = "anger", "Detected anger: risk of confrontation.">>,
                     <<primary = "sadness",
                       "Detected sadness: may be misinterpreted as withdrawn.">> >>))),
             Entry("raw_text", PyStr(text))>>)

\* the "Fallback heuristic analysis (safe)" of analyze_text
HeuristicAnalysis(text) ==
    LET lowered == Lower(text)
        is_question == text[Len(text)] = "?"
        word_count == WordCount(text) IN
    PyDict(<<Entry("emotion_probs", PyDict(<<>>)),
             Entry("primary_emotion",
                   PyMsg(IF AnyIn(NegativeWords, lowered) THEN "negative"
                         ELSE IF AnyIn(PositiveWords, lowered) THEN "positive"
                         ELSE "neutral")),
             Entry("misunderstanding_risk",
                   PyNum(Min(1000, 100 + (IF is_question THEN 150 ELSE 0)
                                       + (IF word_count < 5 THEN 200 ELSE 0)
                                       + (IF UppercaseRatioHigh(text) THEN 100 ELSE 0)
                                       + (IF AnyIn(AmbiguousWords, lowered) THEN 250 ELSE 0)))),
             Entry("notes",
                   PyList(Notes(<<
                     <<is_question, "text is a question - may be ambiguous">>,
                     <<word_count < 5, "very short text - detection/translation may be unreliable">>,
                     <<UppercaseRatioHigh(text), "high uppercase ratio - tone may be perceived as shouting">> >>))),
             Entry("raw_text", PyStr(text))>>)

\* analyze_text on a text that is not blank after (text or "").strip();
\* instance is _MODEL_INSTANCE (0 for None) when the call begins
AnalyzeStripped(tf_available, instance, text, model) ==
    IF tf_available /\ (instance # 0 \/ model.load = "ok")
    THEN [out |-> Return(ModelAnalysis(text, predict_emotion(text, model))),
          calls |-> (IF instance = 0 THEN <<"ModelInference">> ELSE <<>>)
                    \o <<"predict_emotion">>,
          instance |-> IF instance = 0 THEN 1 ELSE instance]
    ELSE [out |-> Return(HeuristicAnalysis(text)),
          calls |-> IF tf_available THEN <<"ModelInference">> ELSE <<>>,
          instance |-> instance]

\* analyze_text, called by one request at a time
analyze_text(tf_available, instance, text, model) ==
    IF Truthy(text) /\ text.t # "str"
    THEN [out |-> Raise("AttributeError", "object has no attribute 'strip'"),
          calls |-> <<>>, instance |-> instance]
    ELSE IF ~Truthy(text) \/ Strip(text.s) = <<>>
    THEN [out |-> Return(EmptyInput), calls |-> <<>>, instance |-> instance]
    ELSE AnalyzeStripped(tf_available, instance, Strip(text.s), model)

---------------------------------------------------------------------------
(* routes/translator_routes.py *)

TextAndTargetRequired == PyDict(<<Entry("error", PyMsg("text and target are required"))>>)

\* api_translate: data is request.get_json(force=True), tr the outcome of
\* translate_and_package(text, target, force_source)
api_translate(data, tr) ==
    IF data.t # "dict"
    THEN [out |-> Raise("AttributeError", "object has no attribute 'get'"), calls |-> <<>>]
    ELSE IF ~Truthy(GetOr(data, "text", PyNone)) \/ ~Truthy(GetOr(data, "target", PyNone))
    THEN [out |-> Response(TextAndTargetRequired, 400), calls |-> <<>>]
    ELSE IF tr.out.kind = "raise" THEN tr
    ELSE [out |-> Response(tr.out.val,
                           IF Get(tr.out.val, "error") = PyNone THEN 200 ELSE 500),
          calls |-> tr.calls]

\* api_translate_and_analyze after translate_and_package has returned
\* translation; an is the outcome of analyze_text(translation["translated_text"])
TranslateThenAnalyze(data, translation, made, instance, an) ==
    IF Truthy(Get(translation, "error"))
    THEN [out |-> Response(PyDict(<<Entry("translation", translation)>>), 500),
          calls |-> made, instance |-> instance]
    ELSE IF ~Truthy(GetOr(data, "run_analysis", PyBool(TRUE)))
    THEN [out |-> Response(PyDict(<<Entry("translation", translation)>>), 200),
          calls |-> made, instance |-> instance]
    ELSE IF an.out.kind = "raise"
    THEN [out |-> Response(PyDict(<<Entry("translation", translation),
                                    Entry("analysis_error", an.out.val)>>), 500),
          calls |-> made \o <<"analyze_text">> \o an.calls, instance |-> an.instance]
    ELSE [out |-> Response(PyDict(<<Entry("translation", translation),
                                    Entry("analysis", an.out.val)>>), 200),
          calls |-> made \o <<"analyze_text">> \o an.calls, instance |-> an.instance]

\* api_translate_and_analyze
api_translate_and_analyze(tf_available, instance, data, tr, model) ==
    IF data.t # "dict"
    THEN [out |-> Raise("AttributeError", "object has no attribute 'get'"),
          calls |-> <<>>, instance |-> instance]
    ELSE IF ~Truthy(GetOr(data, "text", PyNone)) \/ ~Truthy(GetOr(data, "target", PyNone))
    THEN [out |-> Response(TextAndTargetRequired, 400), calls |-> <<>>, instance |-> instance]
    ELSE IF tr.out.kind = "raise"
    THEN [out |-> tr.out, calls |-> tr.calls, instance |-> instance]
    ELSE TranslateThenAnalyze(data, tr.out.val, tr.calls, instance,
                              analyze_text(tf_available, instance,
                                           Get(tr.out.val, "translated_text"), model))

---------------------------------------------------------------------------
(* ai_integrations/gemini_client.py *)

(* The text of a model reply is a sequence of pieces: a code fence ```, the *)
(* word json, white space, other text, or the text of one JSON value (kept  *)
(* as the value json.loads decodes it to).                                  *)
Fence == Val("fence", <<>>, 0, <<>>)
JsonWord == Val("jsonword", <<>>, 0, <<>>)
Space == Val("ws", <<>>, 0, <<>>)
Prose == Val("prose", <<>>, 0, <<>>)

\* what generate_content / response.text meet
Gen(outcome, text) == [outcome |-> outcome, text |-> text]
NoGen == Gen("unused", <<>>)

RECURSIVE LStripText(_)
LStripText(r) == IF r # <<>> /\ Head(r) = Space THEN LStripText(Tail(r)) ELSE r

RECURSIVE RStripText(_)
RStripText(r) ==
    IF r # <<>> /\ r[Len(r)] = Space THEN RStripText(SubSeq(r, 1, Len(r) - 1)) ELSE r

\* response_text.strip()
StripText(r) == RStripText(LStripText(r))

\* the "Remove markdown code blocks if present" steps
StripFences(response_text) ==
    LET c0 == StripText(response_text)
        c1 == IF Len(c0) >= 2 /\ c0[1] = Fence /\ c0[2] = JsonWord
              THEN SubSeq(c0, 3, Len(c0)) ELSE c0
        c2 == IF c1 # <<>> /\ c1[1] = Fence THEN Tail(c1) ELSE c1
        c3 == IF c2 # <<>> /\ c2[Len(c2)] = Fence THEN SubSeq(c2, 1, Len(c2) - 1) ELSE c2
    IN StripText(c3)

IsJsonValue(piece) == piece.t \in {"str", "None", "num", "bool", "list", "dict"}

\* json.loads succeeds on the cleaned text
JsonDecodes(cleaned) == Len(cleaned) = 1 /\ IsJsonValue(cleaned[1])

Digits == <<"0", "1", "2", "3", "4", "5", "6", "7", "8", "9">>
IsDigit(c) == \E i \in DOMAIN Digits : Digits[i] = c
DigitValue(c) == (CHOOSE i \in DOMAIN Digits : Digits[i] = c) - 1

RECURSIVE ParseDigits(_, _)
ParseDigits(s, acc) ==
    IF s = <<>> THEN acc ELSE ParseDigits(Tail(s), acc * 10 + DigitValue(Head(s)))

\* float(v) succeeds: a float, an int, a bool, or a str of decimal digits
\* (other numeric spellings of a str are outside the strs modelled)
FloatOk(v) ==
    \/ v.t \in {"num", "bool"}
    \/ v.t = "str" /\ Strip(v.s) # <<>> /\ \A i \in DOMAIN Strip(v.s) : IsDigit(Strip(v.s)[i])

\* float(v), when it succeeds; a nan or inf keeps its mark in s
Float(v) ==
    IF v.t = "str" THEN PyNum(ParseDigits(Strip(v.s), 0) * 1000)
    ELSE Val("num", v.s, v.n, <<>>)

UnableToAnalyze == PyList(<<PyMsg("Unable to analyze this text. Please try again.")>>)
UnableToImprove == PyMsg("Unable to provide improvement suggestions.")
UnableToDetermine == PyList(<<PyMsg("Unable to determine specific misunderstandings")>>)
ConsiderBeingSpecific ==
    PyMsg("Consider being more specific and direct in your communication.")
Unavailable == PyList(<<PyMsg("Analysis temporarily unavailable")>>)

\* a mutant of _get_fallback_response: misunderstandings is left null
_get_fallback_response_partial(text) ==
    PyDict(<<Entry("emotion", PyStr(s_neutral)),
             Entry("ambiguity_score", PyNum(5000)),
             Entry("misunderstandings", PyNone),
             Entry("improved_version", IF Truthy(text) THEN text ELSE UnableToImprove),
             Entry("tone", PyStr(s_neutral)),
             Entry("clarity_issues", Unavailable)>>)

\* _get_fallback_response
_get_fallback_response(text) ==
    PyDict(<<Entry("emotion", PyStr(s_neutral)),
             Entry("ambiguity_score", PyNum(5000)),
             Entry("misunderstandings", UnableToAnalyze),
             Entry("improved_version", IF Truthy(text) THEN text ELSE UnableToImprove),
             Entry("tone", PyStr(s_neutral)),
             Entry("clarity_issues", Unavailable)>>)

\* the "Validate and set defaults" dict
ValidateAndSetDefaults(r) ==
    PyDict(<<Entry("emotion", GetOr(r, "emotion", PyStr(s_neutral))),
             Entry("ambiguity_score", Float(GetOr(r, "ambiguity_score", PyNum(5000)))),
             Entry("misunderstandings", GetOr(r, "misunderstandings", UnableToDetermine)),
             Entry("improved_version", GetOr(r, "improved_version", ConsiderBeingSpecific)),
             Entry("tone", GetOr(r, "tone", PyStr(s_neutral))),
             Entry("clarity_issues", GetOr(r, "clarity_issues", PyList(<<>>)))>>)

\* a mutant of _parse_analysis_response: a text that json.loads rejects
\* gives an empty result instead of the fallback object
_parse_analysis_response_unguarded(response_text) ==
    LET cleaned == StripFences(response_text) IN
    IF ~JsonDecodes(cleaned) THEN PyDict(<<>>)
    ELSE LET r == cleaned[1] IN
         IF r.t # "dict" THEN _get_fallback_response(PyStr(<<>>))
         ELSE IF ~FloatOk(GetOr(r, "ambiguity_score", PyNum(5000)))
         THEN _get_fallback_response(PyStr(<<>>))
         ELSE ValidateAndSetDefaults(r)

\* _parse_analysis_response
_parse_analysis_response(response_text) ==
    LET cleaned == StripFences(response_text) IN
    IF ~JsonDecodes(cleaned) THEN _get_fallback_response(PyStr(<<>>))
    ELSE LET r == cleaned[1] IN
         IF r.t # "dict" THEN _get_fallback_response(PyStr(<<>>))
         ELSE IF ~FloatOk(GetOr(r, "ambiguity_score", PyNum(5000)))
         THEN _get_fallback_response(PyStr(<<>>))
         ELSE ValidateAndSetDefaults(r)

\* GeminiClient.analyze_communication; gen is what generate_content meets
analyze_communication(text, language, gen) ==
    [calls |-> <<"gemini.generate_content">>,
     out |-> IF gen.outcome # "ok" THEN Return(_get_fallback_response(text))
             ELSE IF text.t \notin {"str", "list"}
             THEN Return(_get_fallback_response(text))
             ELSE Return(_parse_analysis_response(gen.text))]

---------------------------------------------------------------------------
(* ai_integrations/lingodev_client.py *)

s_happiness == <<"h", "a", "p", "p", "i", "n", "e", "s", "s">>
s_sadness == <<"s", "a", "d", "n", "e", "s", "s">>
s_anger == <<"a", "n", "g", "e", "r">>
s_pt == <<"p", "t">>
s_ja == <<"j", "a">>
s_fr == <<"f", "r">>

\* LingoDevClient.detect_language: the mock reply
lingodev_detect_language(text) ==
    PyDict(<<Entry("language", PyStr(s_en)),
             Entry("language_name", PyMsg("English")),
             Entry("confidence", PyNum(950))>>)

\* cultural_data.get(lang, {}).get(emotion, 0.5), in thousandths
cultural_data(lang, emotion) ==
    LET row == IF lang = PyStr(s_en) THEN <<600, 700, 500>>
               ELSE IF lang = PyStr(s_pt) THEN <<800, 600, 400>>
               ELSE IF lang = PyStr(s_ja) THEN <<400, 800, 300>>
               ELSE <<500, 500, 500>> IN
    IF emotion = PyStr(s_happiness) THEN row[1]
    ELSE IF emotion = PyStr(s_sadness) THEN row[2]
    ELSE IF emotion = PyStr(s_anger) THEN row[3]
    ELSE 500

Abs(x) == IF x < 0 THEN -x ELSE x

\* abs(s_val - t_val) > 0.3 in IEEE-754 doubles: of the table's values only
\* 0.8 and 0.5 differ from the decimal result (0.8 - 0.5 = 0.30000000000000004)
DiffExceedsThreshold(s_val, t_val) ==
    Abs(s_val - t_val) > 300 \/ {s_val, t_val} = {800, 500}

\* round(a / b) to the nearest integer, halves to even, for b > 0
RoundDiv(a, b) ==
    LET q == a \div b
        r == a % b IN
    IF 2 * r < b THEN q
    ELSE IF 2 * r > b THEN q + 1
    ELSE IF q % 2 = 0 THEN q ELSE q + 1

RECURSIVE SumDiffs(_, _, _, _)
SumDiffs(source_lang, target_lang, emotions, i) ==
    IF i > Len(emotions) THEN 0
    ELSE Abs(cultural_data(source_lang, emotions[i])
             - cultural_data(target_lang, emotions[i]))
         + SumDiffs(source_lang, target_lang, emotions, i + 1)

\* the insight of one emotion: "restrained", "expressive", or "" for none
Insight(source_lang, target_lang, emotion) ==
    LET s_val == cultural_data(source_lang, emotion)
        t_val == cultural_data(target_lang, emotion) IN
    IF ~DiffExceedsThreshold(s_val, t_val) THEN ""
    ELSE IF s_val > t_val THEN "more restrained" ELSE "more expressive"

RECURSIVE Insights(_, _, _, _)
Insights(source_lang, target_lang, emotions, i) ==
    IF i > Len(emotions) THEN <<>>
    ELSE LET d == Insight(source_lang, target_lang, emotions[i]) IN
         (IF d = "" THEN <<>> ELSE <<PyMsg(d)>>)
         \o Insights(source_lang, target_lang, emotions, i + 1)

CulturalUnavailable == PyDict(<<Entry("insights", PyList(<<PyMsg("Cultural analysis unavailable.")>>))>>)

\* LingoDevClient.get_cultural_context; emotions is a sequence of values
get_cultural_context(text, source_lang, target_lang, emotions) ==
    LET ems == IF emotions = <<>> THEN <<PyMsg("neutral")>> ELSE emotions
        found == Insights(source_lang, target_lang, ems, 1) IN
    IF \E i \in DOMAIN ems : ems[i].t \in {"list", "dict"}
    THEN CulturalUnavailable
    ELSE IF found # <<>> /\ (source_lang.t # "str" \/ target_lang.t # "str")
    THEN CulturalUnavailable
    ELSE PyDict(<<Entry("insights",
                        IF found = <<>>
                        THEN PyList(<<PyMsg("Minimal cultural interpretation differences detected.")>>)
                        ELSE PyList(found)),
                  Entry("cultural_distance_score",
                        PyNum(10 * RoundDiv(SumDiffs(source_lang, target_lang, ems, 1),
                                            10 * Len(ems))))>>)

---------------------------------------------------------------------------
(* app.py *)

IsNaN(x) == x.s = <<"nan">>
IsInf(x) == x.s \in {<<"inf">>, <<"-inf">>}

\* x >= k for a float x and a decimal k in thousandths
FloatGe(x, k) ==
    IF IsNaN(x) THEN FALSE
    ELSE IF IsInf(x) THEN x.s = <<"inf">>
    ELSE x.n >= k

\* int(a / b): truncation toward zero, for b > 0
TruncDiv(a, b) == IF a >= 0 THEN a \div b ELSE -((-a) \div b)

\* a mutant of risk_level: the thresholds are compared strictly
risk_level_strict(ambiguity_score) ==
    IF FloatGe(ambiguity_score, 7000) /\ ambiguity_score.n # 7000 THEN "HIGH"
    ELSE IF FloatGe(ambiguity_score, 4000) /\ ambiguity_score.n # 4000 THEN "MEDIUM"
    ELSE "LOW"

\* "HIGH" if ambiguity_score >= 7 else "MEDIUM" if ambiguity_score >= 4 else "LOW"
risk_level(ambiguity_score) ==
    IF FloatGe(ambiguity_score, 7000) THEN "HIGH"
    ELSE IF FloatGe(ambiguity_score, 4000) THEN "MEDIUM"
    ELSE "LOW"

\* min(int((10 - ambiguity_score) * 10), 95), for a finite score
clarity_improvement(ambiguity_score) ==
    Min(TruncDiv((10000 - ambiguity_score.n) * 10, 1000), 95)

\* the body of the 400 response
NoTextProvided == PyDict(<<Entry("error", PyMsg("No text provided"))>>)

\* the body of the 500 response when gemini_client is None
NotConfigured(text) ==
    PyDict(<<Entry("status", PyMsg("error")),
             Entry("message", PyMsg("Gemini API service not configured")),
             Entry("original_text", text),
             Entry("using_mock", PyBool(TRUE))>>)

\* a mutant of AnalysisFailed: the body says that no mock was used
AnalysisFailed_unflagged(text, e) ==
    PyDict(<<Entry("error", PyMsg(e)),
             Entry("message", PyMsg("Analysis failed. Please try again.")),
             Entry("original_text", text),
             Entry("using_mock", PyBool(FALSE))>>)

\* the body of the 500 response of the except clause
AnalysisFailed(text, e) ==
    PyDict(<<Entry("error", PyMsg(e)),
             Entry("message", PyMsg("Analysis failed. Please try again.")),
             Entry("original_text", text),
             Entry("using_mock", PyBool(TRUE))>>)

\* the "Prepare final response" dict
AnalysisResponse(text, translated_text, language_info, g, cultural_context) ==
    LET emotion == Get(g, "emotion")
        score == Get(g, "ambiguity_score") IN
    PyDict(<<Entry("status", PyMsg("success")),
             Entry("original_text", text),
             Entry("translated_text", translated_text),
             Entry("language_info", language_info),
             Entry("emotion_analysis",
                   PyDict(<<Entry("primary_emotion", emotion),
                            Entry("intensity", PyNum(Min(score.n, 10000) \div 2)),
                            Entry("emotions", PyList(<<emotion>>)),
                            Entry("tone", Get(g, "tone")),
                            Entry("clarity_issues", Get(g, "clarity_issues"))>>)),
             Entry("ambiguity_score", PyNum(100 * RoundDiv(score.n, 100))),
             Entry("misunderstanding_risk", PyMsg(risk_level(score))),
             Entry("misunderstandings", Get(g, "misunderstandings")),
             Entry("improved_version", Get(g, "improved_version")),
             Entry("clarity_improvement", PyNum(1000 * clarity_improvement(score))),
             Entry("cultural_context", cultural_context),
             Entry("using_mock", PyBool(FALSE))>>)

\* the try block of analyze after Step 3, g being the Gemini client's result
AnalyzeDerive(has_lingodev, text, translated_text, language_info, detected_lang, g, made) ==
    IF Get(g, "misunderstandings").t \in {"None", "num", "bool"}
    THEN [out |-> Response(AnalysisFailed(text, "TypeError"), 500), calls |-> made]
    ELSE IF IsNaN(Get(g, "ambiguity_score")) \/ IsInf(Get(g, "ambiguity_score"))
    THEN [out |-> Response(AnalysisFailed(text, "ValueError"), 500),
          calls |-> made \o (IF has_lingodev THEN <<"lingodev.get_cultural_context">>
                             ELSE <<>>)]
    ELSE [out |-> Response(
                    AnalysisResponse(
                      text, translated_text, language_info, g,
                      IF has_lingodev
                      THEN get_cultural_context(translated_text, detected_lang,
                                                PyStr(s_en), <<Get(g, "emotion")>>)
                      ELSE PyDict(<<Entry("insights",
                                          PyList(<<PyMsg("Cultural analysis unavailable")>>))>>)),
                    200),
          calls |-> made \o (IF has_lingodev THEN <<"lingodev.get_cultural_context">>
                             ELSE <<>>)]

\* what GoogleTranslator(...).translate meets
Trans(outcome, text) == [outcome |-> outcome, text |-> text]
NoTrans == Trans("unused", PyNone)

\* the try block of analyze after Step 1, language_info being the detector's result
AnalyzeTry(has_lingodev, text, language_info, gen, gtrans) ==
    AnalyzeDerive(
      has_lingodev, text,
      IF GetOr(language_info, "language", PyStr(s_en)) # PyStr(s_en)
         /\ gtrans.outcome = "ok"
      THEN gtrans.text ELSE text,
      language_info,
      GetOr(language_info, "language", PyStr(s_en)),
      analyze_communication(
        IF GetOr(language_info, "language", PyStr(s_en)) # PyStr(s_en)
           /\ gtrans.outcome = "ok"
        THEN gtrans.text ELSE text,
        GetOr(language_info, "language", PyStr(s_en)), gen).out.val,
      (IF has_lingodev THEN <<"lingodev.detect_language">> ELSE <<>>)
      \o (IF GetOr(language_info, "language", PyStr(s_en)) # PyStr(s_en)
          THEN <<"GoogleTranslator.translate">> ELSE <<>>)
      \o <<"gemini.generate_content">>)

\* the text of the request: data.get('text', '')
RequestText(data) == GetOr(data, "text", PyStr(<<>>))

\* a mutant of analyze: the Gemini client is looked at before the text
analyze_client_first(has_gemini, has_lingodev, data, gen, gtrans) ==
    IF data.t # "dict"
    THEN [out |-> Raise("AttributeError", "object has no attribute 'get'"), calls |-> <<>>]
    ELSE IF ~has_gemini
    THEN [out |-> Response(NotConfigured(RequestText(data)), 500), calls |-> <<>>]
    ELSE IF ~Truthy(RequestText(data))
    THEN [out |-> Response(NoTextProvided, 400), calls |-> <<>>]
    ELSE IF RequestText(data).t \notin {"str", "list"}
    THEN [out |-> Response(AnalysisFailed(RequestText(data), "TypeError"), 500),
          calls |-> <<>>]
    ELSE AnalyzeTry(has_lingodev, RequestText(data),
                    IF has_lingodev THEN lingodev_detect_language(RequestText(data))
                    ELSE PyDict(<<Entry("language", PyStr(s_en))>>),
                    gen, gtrans)

\* analyze: data is request.json, gen what the Gemini call meets and gtrans
\* what GoogleTranslator meets
analyze(has_gemini, has_lingodev, data, gen, gtrans) ==
    IF data.t # "dict"
    THEN [out |-> Raise("AttributeError", "object has no attribute 'get'"), calls |-> <<>>]
    ELSE IF ~Truthy(RequestText(data))
    THEN [out |-> Response(NoTextProvided, 400), calls |-> <<>>]
    ELSE IF ~has_gemini
    THEN [out |-> Response(NotConfigured(RequestText(data)), 500), calls |-> <<>>]
    ELSE IF RequestText(data).t \notin {"str", "list"}
    THEN [out |-> Response(AnalysisFailed(RequestText(data), "TypeError"), 500),
          calls |-> <<>>]
    ELSE AnalyzeTry(has_lingodev, RequestText(data),
                    IF has_lingodev THEN lingodev_detect_language(RequestText(data))
                    ELSE PyDict(<<Entry("language", PyStr(s_en))>>),
                    gen, gtrans)

---------------------------------------------------------------------------
(* The inputs the calls are made with and the replies they meet *)

\* texts carry up to MaxPad leading spaces
MaxPad == 1
\* model scores run from -NegScoreK/4 to MaxScoreK/4 in steps of 0.25
MaxScoreK == 44
NegScoreK == 4

s_hi == <<"h", "i">>
s_hola == <<"h", "o", "l", "a">>
Pad(n) == [i \in 1..n |-> " "]

Texts ==
    {PyStr(Pad(n)) : n \in 0..MaxPad} \cup {PyStr(Pad(n) \o s_hi) : n \in 0..MaxPad}
    \cup {PyNone, PyNum(5000)}

Langs == {PyStr(s_en), PyStr(<<"E", "N">>), PyStr(s_fr), PyStr(s_auto)}
Targets == Langs \cup {PyStr(<<>>), PyStr(<<" ", "e", "n">>)}
Sources == Langs \cup {PyStr(<<>>), PyNone}

LingoReplies ==
    {Reply("ConnectionError", 0, PyNone),
     Reply("ok", 500, NonJson),
     Reply("ok", 200, NonJson),
     Reply("ok", 200, PyDict(<<Entry("translation", PyStr(s_hola))>>)),
     Reply("ok", 200, PyDict(<<Entry("data",
                                     PyDict(<<Entry("translation", PyStr(s_hola))>>))>>)),
     Reply("ok", 200, PyDict(<<Entry("data",
                                     PyDict(<<Entry("translation", PyNone)>>))>>)),
     Reply("ok", 200, PyDict(<<Entry("code", PyNum(0)), Entry("message", PyStr(s_hola))>>)),
     Reply("ok", 200, PyDict(<<Entry("code", PyNum(0))>>)),
     Reply("ok", 200, PyList(<<PyStr(KeyChars("translation"))>>)),
     Reply("ok", 200, PyStr(s_hola)),
     Reply("ok", 200, PyNone)}

MyMemoryReplies ==
    {Reply("ConnectionError", 0, PyNone),
     Reply("ok", 429, NonJson),
     Reply("ok", 200, NonJson),
     Reply("ok", 200, PyDict(<<Entry("responseData",
                                     PyDict(<<Entry("translatedText", PyStr(s_hola))>>))>>)),
     Reply("ok", 200, PyDict(<<Entry("responseData",
                                     PyDict(<<Entry("translatedText", PyStr(<<>>))>>))>>)),
     Reply("ok", 200, PyDict(<<Entry("responseData",
                                     PyDict(<<Entry("translatedText", PyNum(5000))>>))>>)),
     Reply("ok", 200, PyDict(<<Entry("responseData", PyNone)>>)),
     Reply("ok", 200, PyNone)}

FasttextReplies == {Det("ok", s_fr, 900), Det("ValueError", <<>>, 0)}
LangdetectReplies ==
    {Det("ok", s_fr, 0), Det("LangDetectException", <<>>, 0), Det("TypeError", <<>>, 0)}

\* a complete JSON object of the six fields, with the given score
FullReply(score) ==
    PyDict(<<Entry("emotion", PyStr(s_happiness)),
             Entry("ambiguity_score", score),
             Entry("misunderstandings", PyList(<<PyStr(s_hi)>>)),
             Entry("improved_version", PyStr(s_hola)),
             Entry("tone", PyMsg("casual")),
             Entry("clarity_issues", PyList(<<>>))>>)

\* FullReply(score) with one field replaced
With(key, v) ==
    LET full == FullReply(PyNum(2500)) IN
    PyDict([i \in DOMAIN full.items |->
              IF full.items[i].k = key THEN Entry(key, v) ELSE full.items[i]])

\* FullReply(score) with one field left out
Without(key) ==
    LET full == FullReply(PyNum(2500)) IN
    PyDict(SelectSeq(full.items, LAMBDA e : e.k # key))

Scores == {PyNum(250 * k) : k \in (0 - NegScoreK)..MaxScoreK}

AnalysisFields == {"emotion", "ambiguity_score", "misunderstandings",
                   "improved_version", "tone", "clarity_issues"}

GeminiReplies ==
    {Gen("ResourceExhausted", <<>>),
     Gen("ok", <<Prose>>),
     Gen("ok", <<Prose, FullReply(PyNum(2500))>>),
     Gen("ok", <<JsonWord, FullReply(PyNum(2500))>>),
     Gen("ok", <<Fence, JsonWord, Space, FullReply(PyNum(2500)), Space, Fence, Space>>),
     Gen("ok", <<Space, Fence, Space, FullReply(PyNum(2500)), Fence>>),
     Gen("ok", <<PyList(<<FullReply(PyNum(2500))>>)>>),
     Gen("ok", <<PyStr(s_hi)>>),
     Gen("ok", <<PyNone>>),
     Gen("ok", <<PyDict(<<>>)>>),
     Gen("ok", <<With("ambiguity_score", PyStr(<<"7">>))>>),
     Gen("ok", <<With("ambiguity_score", PyStr(s_hi))>>),
     Gen("ok", <<With("ambiguity_score", Val("num", <<"nan">>, 0, <<>>))>>),
     Gen("ok", <<With("ambiguity_score", Val("num", <<"inf">>, 0, <<>>))>>),
     Gen("ok", <<With("emotion", PyList(<<PyStr(s_anger)>>))>>)}
    \cup {Gen("ok", <<FullReply(x)>>) : x \in Scores}
    \cup {Gen("ok", <<With(k, PyNone)>>) : k \in AnalysisFields}
    \cup {Gen("ok", <<Without(k)>>) : k \in AnalysisFields}

\* emotion lists hold up to MaxEmotions emotions
MaxEmotions == 2

CulturalLangs == {PyStr(s_en), PyStr(s_pt), PyStr(s_ja), PyStr(s_fr), PyNone}
Emotions == {PyStr(s_happiness), PyStr(s_sadness), PyStr(s_anger), PyStr(s_neutral)}
EmotionLists == UNION {[1..n -> Emotions] : n \in 0..MaxEmotions}

\* a key that the request body does not hold
Absent == Val("absent", <<>>, 0, <<>>)

\* the JSON body of a request to the translator routes
Body(text, target, source, run_analysis) ==
    PyDict(SelectSeq(<<Entry("text", text), Entry("target", target),
                       Entry("source", source), Entry("run_analysis", run_analysis)>>,
                     LAMBDA e : e.v # Absent))

\* bodies with a text that is a word, empty or a number, with or without
\* a target, a source and run_analysis = false
AnalyzeBodies ==
    {Body(t, g, f, r) : t \in {PyStr(s_hi), PyStr(<<>>), PyNum(5000)},
                        g \in {PyStr(s_en), Absent},
                        f \in {Absent, PyStr(s_fr)},
                        r \in {Absent, PyBool(FALSE)}}
TranslateBodies == {b \in AnalyzeBodies : ~Has(b, "run_analysis")}

RouteLingoReplies ==
    {Reply("ok", 500, NonJson),
     Reply("ok", 200, PyDict(<<Entry("data",
                                     PyDict(<<Entry("translation", PyStr(s_hola))>>))>>)),
     Reply("ok", 200, PyDict(<<Entry("data",
                                     PyDict(<<Entry("translation", PyNone)>>))>>))}
RouteMyMemoryReplies ==
    {Reply("ok", 429, NonJson),
     Reply("ok", 200, PyDict(<<Entry("responseData",
                                     PyDict(<<Entry("translatedText", PyStr(s_hola))>>))>>)),
     Reply("ok", 200, PyDict(<<Entry("responseData",
                                     PyDict(<<Entry("translatedText", PyNum(5000))>>))>>))}
ModelReplies == {Model("OSError", "unused", ""), Model("ok", "ok", "sadness"),
                 Model("ok", "InvalidArgumentError", "")}

TransReplies == {Trans("ok", PyStr(s_hi)), Trans("TranslationNotFound", PyNone)}

\* request.json: an object with or without "text", or no object at all
Bodies ==
    {PyDict(<<Entry("text", t)>>) : t \in Texts}
    \cup {PyDict(<<>>), PyDict(<<Entry("message", PyStr(s_hi))>>), PyNone}

NoArgs == [text |-> PyNone, target |-> PyNone, source |-> PyNone, data |-> PyNone]
NoEnv == [lingo |-> NoReply, mymemory |-> NoReply, fasttext |-> NoDet,
          langdetect |-> NoDet, gen |-> NoGen, gtrans |-> NoTrans, model |-> NoModel]

Made(c, name) == \E i \in DOMAIN c : c[i] = name

\* the replies that the calls in c received
Consumed(c, lingo, mymemory, fasttext, langdetect, gen, gtrans) ==
    [lingo |-> IF Made(c, "lingo.post") THEN lingo ELSE NoReply,
     mymemory |-> IF Made(c, "mymemory.get") THEN mymemory ELSE NoReply,
     fasttext |-> IF Made(c, "fasttext") THEN fasttext ELSE NoDet,
     langdetect |-> IF Made(c, "langdetect") THEN langdetect ELSE NoDet,
     gen |-> IF Made(c, "gemini.generate_content") THEN gen ELSE NoGen,
     gtrans |-> IF Made(c, "GoogleTranslator.translate") THEN gtrans ELSE NoTrans,
     model |-> NoModel]

---------------------------------------------------------------------------
(* The state machine *)

\* the requests that run concurrently in Concurrent
NumRequests == 3
Requests == 1..NumRequests

\* the process after its modules are imported; app.py builds both clients
\* in one try: either both exist or neither
Boot ==
    /\ LINGO_CONFIGURED \in BOOLEAN
    /\ HAS_FASTTEXT \in BOOLEAN
    /\ gemini_client \in BOOLEAN
    /\ lingodev = gemini_client
    /\ pc = "idle"
    /\ op = "none"
    /\ args = NoArgs
    /\ calls = <<>>
    /\ env = NoEnv
    /\ result = Return(PyNone)
    /\ _TF_AVAILABLE \in BOOLEAN
    /\ _MODEL_INSTANCE = 0
    /\ constructions = 0
    /\ rpc = [r \in Requests |-> "idle"]
    /\ observed = [r \in Requests |-> 0]

\* Spec calls the functions that never reach model_inference, whose flag
\* it leaves down; Routes and Concurrent draw it
Init == Boot /\ ~_TF_AVAILABLE

Config == <<LINGO_CONFIGURED, HAS_FASTTEXT, gemini_client, lingodev, _TF_AVAILABLE>>

\* the state of the requests of Concurrent
Workers == <<rpc, observed>>

\* a call ends with outcome r
Finish(name, a, r, e) ==
    /\ pc' = "done"
    /\ op' = name
    /\ args' = a
    /\ calls' = r.calls
    /\ result' = r.out
    /\ env' = e
    /\ UNCHANGED <<Config, _MODEL_INSTANCE, constructions, Workers>>

\* _call_mymemory is entered from translate_text alone, which has found
\* target_lang non-empty
CallMyMemory ==
    /\ pc = "idle"
    /\ \E text \in Texts, target \in Targets \ {PyStr(<<>>)}, source \in Sources,
          mm \in MyMemoryReplies :
         LET r == _call_mymemory(text, target, source, mm) IN
         Finish("_call_mymemory",
                [NoArgs EXCEPT !.text = text, !.target = target, !.source = source],
                r, Consumed(r.calls, NoReply, mm, NoDet, NoDet, NoGen, NoTrans))

TranslateTargets == {PyStr(s_en), PyStr(s_fr), PyStr(<<>>)}
TranslateSources == {PyNone, PyStr(s_en), PyStr(s_auto)}

TranslateText ==
    /\ pc = "idle"
    /\ \E text \in Texts, target \in TranslateTargets, source \in TranslateSources,
          lg \in LingoReplies, mm \in MyMemoryReplies :
         LET r == translate_text(LINGO_CONFIGURED, text, target, source, lg, mm) IN
         Finish("translate_text",
                [NoArgs EXCEPT !.text = text, !.target = target, !.source = source],
                r, Consumed(r.calls, lg, mm, NoDet, NoDet, NoGen, NoTrans))

DetectLanguage ==
    /\ pc = "idle"
    /\ \E text \in Texts, ft \in FasttextReplies, ld \in LangdetectReplies :
         LET r == detect_language(HAS_FASTTEXT, text, ft, ld) IN
         Finish("detect_language", [NoArgs EXCEPT !.text = text],
                r, Consumed(r.calls, NoReply, NoReply, ft, ld, NoGen, NoTrans))

PipelineTargets == {PyStr(s_en), PyStr(s_fr)}
PipelineSources == {PyNone, PyStr(s_fr)}
PipelineLingoReplies ==
    {r \in LingoReplies : r.status # 200 \/ r.body.t \in {"list", "None"}
                           \/ (r.body.t = "dict" /\ Has(r.body, "data"))}
PipelineMyMemoryReplies ==
    {r \in MyMemoryReplies : r.status # 200 \/ (r.body.t = "dict" /\ Truthy(Get(r.body, "responseData")))}

TranslateAndPackage ==
    /\ pc = "idle"
    /\ \E text \in Texts, target \in PipelineTargets, source \in PipelineSources,
          ft \in FasttextReplies, ld \in LangdetectReplies,
          lg \in PipelineLingoReplies, mm \in PipelineMyMemoryReplies :
         LET r == translate_and_package(LINGO_CONFIGURED, HAS_FASTTEXT, text, target,
                                        source, ft, ld, lg, mm) IN
         Finish("translate_and_package",
                [NoArgs EXCEPT !.text = text, !.target = target, !.source = source],
                r, Consumed(r.calls, lg, mm, ft, ld, NoGen, NoTrans))

AnalyzeCommunication ==
    /\ pc = "idle"
    /\ gemini_client
    /\ \E text \in Texts, gen \in GeminiReplies :
         LET r == analyze_communication(text, PyStr(s_en), gen) IN
         Finish("analyze_communication", [NoArgs EXCEPT !.text = text],
                r, Consumed(r.calls, NoReply, NoReply, NoDet, NoDet, gen, NoTrans))

Analyze ==
    /\ pc = "idle"
    /\ \E data \in Bodies, gen \in GeminiReplies, gt \in TransReplies :
         LET r == analyze(gemini_client, lingodev, data, gen, gt) IN
         Finish("analyze", [NoArgs EXCEPT !.data = data],
                r, Consumed(r.calls, NoReply, NoReply, NoDet, NoDet, gen, gt))

\* LingoDevClient.get_cultural_context, called on the client app.py built
GetCulturalContext ==
    /\ pc = "idle"
    /\ lingodev
    /\ \E source \in CulturalLangs, target \in CulturalLangs \ {PyNone},
          emotions \in EmotionLists :
         Finish("get_cultural_context",
                [NoArgs EXCEPT !.text = PyStr(s_hi), !.target = target,
                               !.source = source, !.data = PyList(emotions)],
                [out |-> Return(get_cultural_context(PyStr(s_hi), source, target, emotions)),
                 calls |-> <<>>],
                NoEnv)

\* POST /api/translate
ApiTranslate ==
    /\ pc = "idle"
    /\ \E data \in TranslateBodies, ft \in FasttextReplies, ld \in LangdetectReplies,
          lg \in RouteLingoReplies, mm \in RouteMyMemoryReplies :
         LET r == api_translate(data,
                                translate_and_package(
                                  LINGO_CONFIGURED, HAS_FASTTEXT,
                                  GetOr(data, "text", PyNone), GetOr(data, "target", PyNone),
                                  GetOr(data, "source", PyNone), ft, ld, lg, mm)) IN
         Finish("api_translate", [NoArgs EXCEPT !.data = data],
                r, Consumed(r.calls, lg, mm, ft, ld, NoGen, NoTrans))

\* POST /api/translate-and-analyze; the analysis step may construct the
\* ModelInference object and store it in _MODEL_INSTANCE
ApiTranslateAndAnalyze ==
    /\ pc = "idle"
    /\ \E data \in AnalyzeBodies, ft \in FasttextReplies, ld \in LangdetectReplies,
          lg \in RouteLingoReplies, mm \in RouteMyMemoryReplies, ml \in ModelReplies :
         LET r == api_translate_and_analyze(
                    _TF_AVAILABLE, _MODEL_INSTANCE, data,
                    translate_and_package(
                      LINGO_CONFIGURED, HAS_FASTTEXT,
                      GetOr(data, "text", PyNone), GetOr(data, "target", PyNone),
                      GetOr(data, "source", PyNone), ft, ld, lg, mm),
                    ml) IN
         /\ pc' = "done"
         /\ op' = "api_translate_and_analyze"
         /\ args' = [NoArgs EXCEPT !.data = data]
         /\ calls' = r.calls
         /\ result' = r.out
         /\ env' = [Consumed(r.calls, lg, mm, ft, ld, NoGen, NoTrans) EXCEPT
                      !.model = IF Made(r.calls, "ModelInference")
                                   \/ Made(r.calls, "predict_emotion")
                                THEN ml ELSE NoModel]
         /\ _MODEL_INSTANCE' = r.instance
         /\ constructions' = IF r.instance # _MODEL_INSTANCE THEN constructions + 1
                             ELSE constructions
         /\ UNCHANGED <<Config, Workers>>

\* the caller has its answer; the process waits for the next call
NextCall ==
    /\ pc = "done"
    /\ pc' = "idle"
    /\ op' = "none"
    /\ args' = NoArgs
    /\ calls' = <<>>
    /\ env' = NoEnv
    /\ result' = Return(PyNone)
    /\ UNCHANGED <<Config, _MODEL_INSTANCE, constructions, Workers>>

Next ==
    \/ CallMyMemory
    \/ TranslateText
    \/ DetectLanguage
    \/ TranslateAndPackage
    \/ AnalyzeCommunication
    \/ Analyze
    \/ GetCulturalContext
    \/ NextCall

Spec == Init /\ [][Next]_vars

---------------------------------------------------------------------------
(* Routes: the translator blueprint, one request at a time *)

\* the routes never look at the Gemini client
RoutesInit == Boot /\ ~gemini_client

RoutesNext ==
    \/ ApiTranslate
    \/ ApiTranslateAndAnalyze
    \/ NextCall

Routes == RoutesInit /\ [][RoutesNext]_vars

---------------------------------------------------------------------------
(* Concurrent: requests served by threads, each calling analyze_text; a    *)
(* step is one statement of analyze_text or of _get_model_instance.        *)

\* what Concurrent leaves alone
Sequential == <<LINGO_CONFIGURED, HAS_FASTTEXT, gemini_client, lingodev, _TF_AVAILABLE,
                pc, op, args, calls, env, result>>

ConcurrentInit ==
    /\ Boot
    /\ ~LINGO_CONFIGURED
    /\ ~HAS_FASTTEXT
    /\ ~gemini_client

\* request r moves to position p
Goto(r, p) == rpc' = [rpc EXCEPT ![r] = p]

\* analyze_text up to "if _TF_AVAILABLE": a blank text returns at once, and
\* without tensorflow the heuristic analysis answers
Begin(r) ==
    /\ rpc[r] = "idle"
    /\ \E text \in {PyStr(<<>>), PyStr(s_hi)} :
         Goto(r, IF Strip(text.s) = <<>> \/ ~_TF_AVAILABLE THEN "done" ELSE "check")
    /\ UNCHANGED <<Sequential, _MODEL_INSTANCE, constructions, observed>>

\* _get_model_instance: if _MODEL_INSTANCE is None
CheckInstance(r) ==
    /\ rpc[r] = "check"
    /\ Goto(r, IF _MODEL_INSTANCE = 0 THEN "construct" ELSE "return")
    /\ UNCHANGED <<Sequential, _MODEL_INSTANCE, constructions, observed>>

\* ModelInference(model_name): the object is built, or from_pretrained
\* raises and analyze_text falls through to the heuristic analysis
Construct(r) ==
    /\ rpc[r] = "construct"
    /\ \E load \in {"ok", "OSError"} :
         IF load = "ok"
         THEN Goto(r, "assign") /\ constructions' = constructions + 1
         ELSE Goto(r, "done") /\ UNCHANGED constructions
    /\ UNCHANGED <<Sequential, _MODEL_INSTANCE, observed>>

\* _MODEL_INSTANCE = <the object request r built>
Assign(r) ==
    /\ rpc[r] = "assign"
    /\ _MODEL_INSTANCE' = r
    /\ Goto(r, "return")
    /\ UNCHANGED <<Sequential, constructions, observed>>

\* return _MODEL_INSTANCE
ReturnInstance(r) ==
    /\ rpc[r] = "return"
    /\ observed' = [observed EXCEPT ![r] = _MODEL_INSTANCE]
    /\ Goto(r, "predict")
    /\ UNCHANGED <<Sequential, _MODEL_INSTANCE, constructions>>

\* model.predict_emotion(text) and the rest of analyze_text
Predict(r) ==
    /\ rpc[r] = "predict"
    /\ Goto(r, "done")
    /\ UNCHANGED <<Sequential, _MODEL_INSTANCE, constructions, observed>>

ConcurrentNext ==
    \E r \in Requests :
        \/ Begin(r)
        \/ CheckInstance(r)
        \/ Construct(r)
        \/ Assign(r)
        \/ ReturnInstance(r)
        \/ Predict(r)

Concurrent == ConcurrentInit /\ [][ConcurrentNext]_vars

---------------------------------------------------------------------------
(* Properties of the translator client and the translation pipeline *)

\* the primary provider's call, meeting this reply, fails
LingoFails(reply) ==
    _call_lingo_rest(TRUE, args.text, args.target, args.source, reply).out.kind = "raise"

\* C1: in translate_text, whenever the primary provider was called and its
\* call failed in any way (status >= 400, non-JSON body, unexpected structure,
\* or an exception of the HTTP transport), the fallback provider is entered
\* before the call ends.
C1_FallbackAfterAnyPrimaryFailure ==
    (op = "translate_text" /\ Made(calls, "lingo.post") /\ LingoFails(env.lingo))
        => Made(calls, "_call_mymemory")

\* C2: every result translate_and_package returns has exactly one of
\* translated_text and error non-null.
C2_ExactlyOneOfTextAndError ==
    (op = "translate_and_package" /\ result.kind = "return")
        => (Get(result.val, "translated_text").t # "None")
            # (Get(result.val, "error").t # "None")

\* C10: translate_and_package always returns a TranslationResult; a failure
\* during the call, language detection included, ends in the error field and
\* never as an exception.
C10_PipelineNeverRaises ==
    op = "translate_and_package"
        => /\ result.kind = "return"
           /\ Has(result.val, "error")
           /\ Has(result.val, "translated_text")

\* C6: detect_language never raises, and returns ("auto", 0.0) whenever the
\* detectors it tried all failed.
C6_DetectorNeverRaises ==
    op = "detect_language"
        => /\ result.kind = "return"
           /\ (Made(calls, "langdetect") /\ env.langdetect.outcome # "ok")
                => result.val = PyPair(s_auto, 0)

\* C7, as claimed: for every non-empty text and every (source, target) with
\* source.lower() == target.lower(), source = target = "auto" included,
\* _call_mymemory returns the text unchanged and makes no network call.
C7_SameLanguageAsClaimed ==
    (/\ op = "_call_mymemory"
     /\ Truthy(args.text)
     /\ args.source.t = "str"
     /\ Lower(args.source.s) = Lower(args.target.s))
        => (result = Return(args.text) /\ calls = <<>>)

\* C7, amended: the same for every pair whose source is neither empty nor
\* "auto" (such a source is first rewritten to "en", and it is "en" that is
\* compared with the target).
C7_SameLanguageShortCircuit ==
    (/\ op = "_call_mymemory"
     /\ Truthy(args.text)
     /\ args.source.t = "str"
     /\ args.source.s \notin {<<>>, s_auto}
     /\ Lower(args.source.s) = Lower(args.target.s))
        => (result = Return(args.text) /\ calls = <<>>)

\* a call with source "EN" and target "en" has returned its text
C7_Witness ==
    /\ op = "_call_mymemory"
    /\ args.text = PyStr(s_hi)
    /\ args.source = PyStr(<<"E", "N">>)
    /\ args.target = PyStr(s_en)
    /\ result = Return(PyStr(s_hi))
    /\ calls = <<>>

---------------------------------------------------------------------------
(* Properties of the Gemini client and of /analyze *)

\* C3: analyze_communication never raises and returns all six fields
\* present and non-null, whatever the model replies.
C3_AnalysisFullyPopulated ==
    op = "analyze_communication"
        => /\ result.kind = "return"
           /\ \A k \in AnalysisFields :
                Has(result.val, k) /\ Get(result.val, k).t # "None"

\* the score the Gemini client returned to the handler in this request
GeminiScore ==
    Get(analyze_communication(RequestText(args.data), PyStr(s_en), env.gen).out.val,
        "ambiguity_score")

Succeeded == op = "analyze" /\ result.kind = "response" /\ result.status = 200

\* C4: in every successful /analyze response clarity_improvement is an
\* integer in [0, 95], for every score the Gemini client can return; a score
\* of 0 gives 95 and a score of 10 gives 0.
C4_ClarityInRange ==
    Succeeded
        => LET c == Get(result.val, "clarity_improvement") IN
           /\ c.t = "num" /\ c.n % 1000 = 0
           /\ 0 <= c.n /\ c.n <= 95000
           /\ GeminiScore.n = 0 => c.n = 95000
           /\ GeminiScore.n = 10000 => c.n = 0

\* C5: misunderstanding_risk is HIGH iff score >= 7, MEDIUM iff
\* 4 <= score < 7 and LOW iff score < 4, 4.0 and 7.0 included.
C5_RiskThresholds ==
    Succeeded
        => LET risk == Get(result.val, "misunderstanding_risk")
               x == GeminiScore.n IN
           /\ risk = PyMsg("HIGH") <=> x >= 7000
           /\ risk = PyMsg("MEDIUM") <=> (4000 <= x /\ x < 7000)
           /\ risk = PyMsg("LOW") <=> x < 4000

\* a response was built from a score of exactly 7.0, and its risk is HIGH
C5_Witness ==
    /\ Succeeded
    /\ GeminiScore.n = 7000
    /\ Get(result.val, "misunderstanding_risk") = PyMsg("HIGH")

\* C8: /analyze answers every request whose text is empty after trimming
\* with a 4xx response, before any call to another service.
C8_BlankTextRejected ==
    (/\ op = "analyze"
     /\ args.data.t = "dict"
     /\ RequestText(args.data).t = "str"
     /\ Strip(RequestText(args.data).s) = <<>>)
        => /\ result.kind = "response"
           /\ result.status >= 400 /\ result.status < 500
           /\ calls = <<>>

\* C9: /analyze answers a JSON object without a text field with status 400
\* and a body that has error, whether or not the Gemini client exists.
C9_MissingTextIs400 ==
    (op = "analyze" /\ args.data.t = "dict" /\ ~Has(args.data, "text"))
        => /\ result.kind = "response"
           /\ result.status = 400
           /\ Has(result.val, "error")

\* a request without text was answered 400 while gemini_client is None
C9_Witness ==
    /\ op = "analyze"
    /\ ~gemini_client
    /\ args.data.t = "dict" /\ ~Has(args.data, "text")
    /\ result.status = 400

---------------------------------------------------------------------------
(* Properties of the /analyze handler's error paths *)

\* what the Gemini client returned to the handler in this request
GeminiResult ==
    analyze_communication(RequestText(args.data), PyStr(s_en), env.gen).out.val

\* a request with a truthy text, handled while the Gemini client exists
Handled ==
    /\ op = "analyze"
    /\ gemini_client
    /\ args.data.t = "dict"
    /\ Truthy(RequestText(args.data))

\* a step of the try block raises: text[:100] on a text that cannot be
\* sliced, len(misunderstandings) on a value without a length, or
\* int((10 - ambiguity_score) * 10) on a nan or an infinite score
StepRaises ==
    \/ RequestText(args.data).t \notin {"str", "list"}
    \/ Get(GeminiResult, "misunderstandings").t \in {"None", "num", "bool"}
    \/ IsNaN(GeminiScore)
    \/ IsInf(GeminiScore)

ResponseFields == {"status", "original_text", "translated_text", "language_info",
                   "emotion_analysis", "ambiguity_score", "misunderstanding_risk",
                   "misunderstandings", "improved_version", "clarity_improvement",
                   "cultural_context", "using_mock"}

\* the response is a success response with every field of AnalysisResponse
IsAnalysisResponse ==
    /\ result.kind = "response"
    /\ result.status = 200
    /\ Get(result.val, "status") = PyMsg("success")
    /\ \A k \in ResponseFields : Has(result.val, k)

\* the Gemini call of this request raised, or its reply is not JSON
GeminiCallFails ==
    /\ Made(calls, "gemini.generate_content")
    /\ \/ env.gen.outcome # "ok"
       \/ ~JsonDecodes(StripFences(env.gen.text))

\* C12, as claimed: every /analyze request with a non-empty text gets a
\* success response with every AnalysisResponse field, whichever dependency
\* failed, the construction of the Gemini client at startup included.
C12_AlwaysValidResponse ==
    (op = "analyze" /\ args.data.t = "dict" /\ Truthy(RequestText(args.data)))
        => IsAnalysisResponse

\* C12, amended: with the Gemini client constructed and a non-empty string
\* as text, a Gemini call that raises or replies with non-JSON text, and a
\* cultural-context call that fails, still end in a success response with
\* every field; when the construction of the Gemini client failed at
\* startup, the request ends with the 500 "not configured" body.
C12_ValidWhenCallsFail ==
    /\ (Handled /\ RequestText(args.data).t = "str" /\ GeminiCallFails)
          => IsAnalysisResponse
    /\ (Handled /\ ~StepRaises /\ Get(GeminiResult, "emotion").t \in {"list", "dict"})
          => /\ IsAnalysisResponse
             /\ Get(result.val, "cultural_context") = CulturalUnavailable
    /\ (op = "analyze" /\ ~gemini_client /\ args.data.t = "dict"
        /\ Truthy(RequestText(args.data)))
          => /\ result.kind = "response"
             /\ result.status = 500
             /\ result.val = NotConfigured(RequestText(args.data))

\* the Gemini call raised and the request for "hi" ended with a success
\* response built from the fallback object
C12_Witness ==
    /\ Handled
    /\ RequestText(args.data) = PyStr(s_hi)
    /\ Made(calls, "gemini.generate_content")
    /\ env.gen.outcome = "ResourceExhausted"
    /\ IsAnalysisResponse
    /\ Get(result.val, "misunderstandings") = UnableToAnalyze

\* the six analysis fields of this request are those of the fallback object
FromFallback ==
    \/ env.gen.outcome # "ok"
    \/ ~JsonDecodes(StripFences(env.gen.text))
    \/ StripFences(env.gen.text)[1].t # "dict"
    \/ ~FloatOk(GetOr(StripFences(env.gen.text)[1], "ambiguity_score", PyNum(5000)))

\* C13: in every /analyze response that carries the analysis fields,
\* using_mock is true exactly when they came from the Gemini client's
\* fallback object; a success response built from the fallback object has
\* using_mock = true.
C13_UsingMockIffFallback ==
    Succeeded
        => (Get(result.val, "using_mock") = PyBool(TRUE) <=> FromFallback)

---------------------------------------------------------------------------
(* Properties of the cultural-context client *)

\* the emotions whose difference, as a decimal number, is strictly greater
\* than 0.3, each with the wording the spec gives it
RECURSIVE ExpectedInsights(_, _, _, _)
ExpectedInsights(source_lang, target_lang, emotions, i) ==
    IF i > Len(emotions) THEN <<>>
    ELSE LET s_val == cultural_data(source_lang, emotions[i])
             t_val == cultural_data(target_lang, emotions[i]) IN
         (IF Abs(s_val - t_val) > 300
          THEN <<PyMsg(IF s_val > t_val THEN "more restrained" ELSE "more expressive")>>
          ELSE <<>>)
         \o ExpectedInsights(source_lang, target_lang, emotions, i + 1)

\* the emotions list this call was made with
RequestedEmotions == [i \in DOMAIN args.data.items |-> args.data.items[i].v]

\* C14: for every source language, target language and non-empty emotion
\* list, get_cultural_context returns cultural_distance_score = the mean of
\* |source_value - target_value| over the emotions, rounded to 2 decimals,
\* and insights = one insight per emotion whose difference is strictly
\* greater than 0.3, or the single generic message when there is none.
C14_CulturalContextAsClaimed ==
    (/\ op = "get_cultural_context"
     /\ args.source.t = "str"
     /\ RequestedEmotions # <<>>)
        => LET expected == ExpectedInsights(args.source, args.target, RequestedEmotions, 1)
               total == SumDiffs(args.source, args.target, RequestedEmotions, 1) IN
           /\ result.kind = "return"
           /\ Get(result.val, "cultural_distance_score")
                = PyNum(10 * RoundDiv(total, 10 * Len(RequestedEmotions)))
           /\ Get(result.val, "insights")
                = IF expected = <<>>
                  THEN PyList(<<PyMsg("Minimal cultural interpretation differences detected.")>>)
                  ELSE PyList(expected)

---------------------------------------------------------------------------
(* Properties of the translator routes *)

\* the request holds a string as text and a target
TextAndTargetPresent ==
    /\ args.data.t = "dict"
    /\ GetOr(args.data, "text", PyNone).t = "str"
    /\ Truthy(GetOr(args.data, "text", PyNone))
    /\ Truthy(GetOr(args.data, "target", PyNone))

\* the analysis step of this request was run and raised
AnalysisRaised ==
    /\ Made(calls, "analyze_text")
    /\ analyze_text(_TF_AVAILABLE, 0,
                    Get(Get(result.val, "translation"), "translated_text"),
                    env.model).out.kind = "raise"

\* C15: with text and target present, /api/translate answers 500 exactly
\* when the TranslationResult's error is set and 200 otherwise;
\* /api/translate-and-analyze answers 500 exactly when the translation's
\* error is set or the analysis step raised, 200 otherwise, and runs the
\* analysis step neither after a failed translation nor when run_analysis
\* is false.
C15_RouteStatuses ==
    /\ (op = "api_translate" /\ TextAndTargetPresent)
          => /\ result.kind = "response"
             /\ result.status = IF Get(result.val, "error") # PyNone THEN 500 ELSE 200
    /\ (op = "api_translate_and_analyze" /\ TextAndTargetPresent)
          => /\ result.kind = "response"
             /\ result.status
                  = IF Get(Get(result.val, "translation"), "error") # PyNone
                       \/ AnalysisRaised
                    THEN 500 ELSE 200
             /\ Made(calls, "analyze_text")
                  => /\ Get(Get(result.val, "translation"), "error") = PyNone
                     /\ Truthy(GetOr(args.data, "run_analysis", PyBool(TRUE)))

---------------------------------------------------------------------------
(* Further properties of the Gemini client, the translator client and the *)
(* language detector                                                       *)

\* C16: for every Gemini reply that fails JSON parsing after the code
\* fences are stripped, analyze_communication returns a result with all six
\* fields present and non-null, emotion and tone "neutral" and
\* ambiguity_score 5.0.
C16_UnparseableReplyGivesFallback ==
    (/\ op = "analyze_communication"
     /\ env.gen.outcome = "ok"
     /\ ~JsonDecodes(StripFences(env.gen.text)))
        => /\ result.kind = "return"
           /\ \A k \in AnalysisFields :
                Has(result.val, k) /\ Get(result.val, k).t # "None"
           /\ Get(result.val, "emotion") = PyStr(s_neutral)
           /\ Get(result.val, "tone") = PyStr(s_neutral)
           /\ Get(result.val, "ambiguity_score") = PyNum(5000)

\* the model replied with prose before the JSON object, and the call for
\* "hi" returned the fallback object
C16_Witness ==
    /\ op = "analyze_communication"
    /\ args.text = PyStr(s_hi)
    /\ env.gen = Gen("ok", <<Prose, FullReply(PyNum(2500))>>)
    /\ result = Return(_get_fallback_response(PyStr(<<>>)))

\* C17: every result of analyze_communication, and every ambiguity_score of
\* an /analyze response, has ambiguity_score in [0, 10], whatever number the
\* model put in its reply.
C17_ScoreInRange ==
    /\ (op = "analyze_communication" /\ result.kind = "return")
          => LET x == Get(result.val, "ambiguity_score") IN
             x.t = "num" /\ ~IsNaN(x) /\ ~IsInf(x) /\ 0 <= x.n /\ x.n <= 10000
    /\ Succeeded
          => LET y == Get(result.val, "ambiguity_score") IN
             y.t = "num" /\ 0 <= y.n /\ y.n <= 10000

\* C18: every call of translate_text on a text that is a str either
\* returns a str or raises TranslatorError; no other exception escapes and
\* no other value is returned.
C18_StringOrTranslatorError ==
    (op = "translate_text" /\ args.text.t = "str")
        => \/ result.kind = "return" /\ result.val.t = "str"
           \/ result.kind = "raise" /\ result.exc = "TranslatorError"

\* C19: for every empty or whitespace-only text, detect_language returns
\* ("auto", 0.0) and calls neither fastText nor langdetect (the only calls
\* it could make).
C19_BlankTextShortCircuits ==
    (/\ op = "detect_language"
     /\ args.text.t = "str"
     /\ Strip(args.text.s) = <<>>)
        => /\ result = Return(PyPair(s_auto, 0))
           /\ calls = <<>>
           /\ env = NoEnv

\* with fastText present, a text of one space was answered ("auto", 0.0)
\* without a call
C19_Witness ==
    /\ op = "detect_language"
    /\ HAS_FASTTEXT
    /\ args.text = PyStr(<<" ">>)
    /\ result = Return(PyPair(s_auto, 0))
    /\ calls = <<>>

---------------------------------------------------------------------------
(* Properties of the lazily constructed model under concurrent requests *)

\* C20: whatever the interleaving of the requests, the ModelInference
\* object is constructed at most once, and once _MODEL_INSTANCE is set it
\* is not replaced: every request that was handed the model was handed the
\* object _MODEL_INSTANCE holds.
C20_ConstructedAtMostOnce ==
    /\ constructions <= 1
    /\ \A r \in Requests : observed[r] # 0 => observed[r] = _MODEL_INSTANCE

---------------------------------------------------------------------------
(* Properties of the order of the calls *)

\* how many times the call log c holds name
Count(c, name) == Cardinality({i \in DOMAIN c : c[i] = name})

\* C21: within one translate_text call nothing is retried: the primary
\* provider is entered at most once and sends at most one request, and so
\* does the fallback provider; the fallback is entered only if the primary
\* is unconfigured or its one call failed, after that call, and never after
\* the primary succeeded.
C21_NoRetry ==
    op = "translate_text"
        => /\ \A name \in {"_call_lingo_rest", "lingo.post", "_call_mymemory", "mymemory.get"} :
                Count(calls, name) <= 1
           /\ Made(calls, "_call_lingo_rest") => LINGO_CONFIGURED
           /\ Made(calls, "_call_mymemory")
                => \/ ~LINGO_CONFIGURED
                   \/ /\ Made(calls, "_call_lingo_rest")
                      /\ LingoFails(env.lingo)
                      /\ \A i, j \in DOMAIN calls :
                            (calls[i] = "lingo.post" /\ calls[j] = "_call_mymemory") => i < j
           /\ (Made(calls, "_call_lingo_rest") /\ ~LingoFails(env.lingo))
                => ~Made(calls, "_call_mymemory")

\* the primary provider answered HTTP 500, the fallback was entered after
\* it, and each provider was asked once
C21_Witness ==
    /\ op = "translate_text"
    /\ LINGO_CONFIGURED
    /\ env.lingo.status = 500
    /\ calls = <<"_call_lingo_rest", "lingo.post", "_call_mymemory", "mymemory.get">>
    /\ result.kind = "return"

---------------------------------------------------------------------------
(* Properties of /analyze with the mock language detector *)

MinimalDifferences ==
    PyList(<<PyMsg("Minimal cultural interpretation differences detected.")>>)

\* C22: in /analyze with the cultural-context client present the detected
\* language is always "en": the translation step is never executed, and
\* every success response has translated_text equal to the original text
\* and a cultural context of cultural_distance_score 0.0 with only the
\* generic minimal-difference insight.
C22_AlwaysEnglish ==
    (op = "analyze" /\ lingodev)
        => /\ ~Made(calls, "GoogleTranslator.translate")
           /\ Succeeded
                => /\ Get(Get(result.val, "language_info"), "language") = PyStr(s_en)
                   /\ Get(result.val, "translated_text") = Get(result.val, "original_text")
                   /\ Has(Get(result.val, "cultural_context"), "cultural_distance_score")
                   /\ Get(Get(result.val, "cultural_context"), "cultural_distance_score")
                        = PyNum(0)
                   /\ Get(Get(result.val, "cultural_context"), "insights")
                        = MinimalDifferences

===========================================================================
